---- MODULE Spec2Model ----
(***************************************************************************)
(* Routing core of the quilkin UDP proxy: the session-affinity router      *)
(* (src/filters/session_router) with its factory and config forms, the     *)
(* load-balancing filter                                                   *)
(* (src/extensions/filters/load_balancer) and the source-IP router         *)
(* (src/filters/source_ip_router).                                         *)
(***************************************************************************)
EXTENDS Integers, Sequences, FiniteSets, TLC

VARIABLES
    \* ---- SessionRouter (session_router/mod.rs) ----
    config,        \* SessionRouter.config: [handshake_bytes, dynamo_table_name]
    sessions,      \* SessionRouter.sessions: source address -> Endpoint
    token_map,     \* SessionRouter.token_map: token -> "ip:port"
    locks,         \* holder of each parking_lot::Mutex, "none" when free
    poll_pc,       \* position of the spawned refresh task
    latest,        \* the refresh task's local `latest`
    table,         \* items of the external (Dynamo) table
    rpc,           \* per packet worker: position inside SessionRouter::read
    ctx,           \* per packet worker: the ReadContext
    call,          \* per packet worker: the ReadContext as it was passed in
    token,         \* per packet worker: local `token`
    ip_port,       \* per packet worker: what token_map.get(token) returned
    endpoint,      \* per packet worker: local `endpoint` (Option<Endpoint>)
    result,        \* per packet worker: the value read returned
    \* ---- LoadBalancerFilter (load_balancer/mod.rs) ----
    policy,        \* which EndpointChooser the filter was created with
    next_endpoint, \* RoundRobinEndpointChooser.next_endpoint (AtomicUsize)
    fetches,       \* how many fetch_add the counter has served so far
    received,      \* how many packets the filter has been given so far
    lb_pc,         \* per packet worker: position inside on_downstream_receive
    lb_endpoints,  \* per packet worker: ctx.endpoints (UpstreamEndpoints)
    lb_given,      \* per packet worker: ctx.endpoints as it was passed in
    lb_count,      \* per packet worker: local `count` of choose_endpoints
    lb_ordinal,    \* per packet worker: which fetch_add (0, 1, ...) it was served by
    lb_idx,        \* per packet worker: the index handed to keep
    lb_sizes,      \* history: the candidate-set sizes handed to the filter so far
    lb_overlap,    \* history: TRUE once two invocations were in flight together
    lb_selected,   \* history: per position, how many completed invocations kept it
    \* ---- SourceIpRouter (source_ip_router.rs) ----
    routes,        \* SourceIpRouter.routes
    ip_pc,         \* position inside SourceIpRouter::read
    ip_ctx,        \* the ReadContext
    ip_call,       \* the ReadContext as it was passed in
    ip_next,       \* index of the route the for loop looks at next
    ip_consulted,  \* routes whose sources the loop has tested
    ip_result,     \* the value read returned
    \* ---- SessionRouterFactory and the config forms (mod.rs, config.rs) ----
    dynamo_client, \* SessionRouterFactory.dynamo_client (Option<DynamoClient>)
    cf_pc,         \* position of a create_filter call
    cf_args,       \* CreateFilterArgs.config of that call
    cf_result,     \* the value create_filter returned
    routers,       \* how many SessionRouter instances have been built
    poll_handles,  \* how many refresh tasks have been spawned
    cv_pc,         \* position of a config conversion
    cv_given,      \* the value handed to the first try_from
    cv_mid,        \* what the first try_from returned
    cv_out         \* what the second try_from returned

srVars == <<config, sessions, token_map, locks, poll_pc, latest, table,
            rpc, ctx, call, token, ip_port, endpoint, result>>

lbVars == <<policy, next_endpoint, fetches, received, lb_pc, lb_endpoints,
            lb_given, lb_count, lb_ordinal, lb_idx, lb_sizes, lb_overlap,
            lb_selected>>

ipVars == <<routes, ip_pc, ip_ctx, ip_call, ip_next, ip_consulted, ip_result>>

cfVars == <<dynamo_client, cf_pc, cf_args, cf_result, routers, poll_handles,
            cv_pc, cv_given, cv_mid, cv_out>>

vars == <<srVars, lbVars, ipVars, cfVars>>

\* Option<T>
None == <<>>
Some(x) == <<x>>

-----------------------------------------------------------------------------
(* Addresses                                                               *)

IpV4(a, b, c, d) == [v |-> 4, octets |-> <<a, b, c, d>>]
IpV6(octets) == [v |-> 6, octets |-> octets]

SocketAddrV4(a, b, c, d, port) == [ip |-> IpV4(a, b, c, d), port |-> port]

\* str::parse::<EndpointAddress>() on the strings the model uses: a string
\* that is "ip:port" with a port that fits u16 parses, anything else does not.
ParseEndpointAddress(s) ==
    CASE s = "10.0.101.69:7777" -> Some(SocketAddrV4(10, 0, 101, 69, 7777))
      [] s = "10.0.0.2:7000"    -> Some(SocketAddrV4(10, 0, 0, 2, 7000))
      [] s = "127.0.0.1:7777"   -> Some(SocketAddrV4(127, 0, 0, 1, 7777))
      [] s = "127.0.0.1:5555"   -> Some(SocketAddrV4(127, 0, 0, 1, 5555))
      [] s = "127.0.0.1:5556"   -> Some(SocketAddrV4(127, 0, 0, 1, 5556))
      [] OTHER                  -> None

\* Endpoint::new(address): the address and no metadata
NewEndpoint(address) == [address |-> address, metadata |-> None]

-----------------------------------------------------------------------------
(* base64::engine::general_purpose::STANDARD.encode                        *)

B64Alphabet ==
    <<"A","B","C","D","E","F","G","H","I","J","K","L","M","N","O","P",
      "Q","R","S","T","U","V","W","X","Y","Z","a","b","c","d","e","f",
      "g","h","i","j","k","l","m","n","o","p","q","r","s","t","u","v",
      "w","x","y","z","0","1","2","3","4","5","6","7","8","9","+","/">>

B64Char(i) == B64Alphabet[i + 1]

RECURSIVE Base64Encode(_)
Base64Encode(bytes) ==
    IF Len(bytes) = 0 THEN ""
    ELSE IF Len(bytes) = 1 THEN
        LET n == bytes[1] * 16
        IN  B64Char(n \div 64) \o B64Char(n % 64) \o "=="
    ELSE IF Len(bytes) = 2 THEN
        LET n == (bytes[1] * 256 + bytes[2]) * 4
        IN  B64Char(n \div 4096) \o B64Char((n \div 64) % 64)
              \o B64Char(n % 64) \o "="
    ELSE
        LET n == bytes[1] * 65536 + bytes[2] * 256 + bytes[3]
        IN  B64Char(n \div 262144) \o B64Char((n \div 4096) % 64)
              \o B64Char((n \div 64) % 64) \o B64Char(n % 64)
              \o Base64Encode(SubSeq(bytes, 4, Len(bytes)))

-----------------------------------------------------------------------------
(* The external table and fetch_tokens_from_dynamo                         *)

AttrS(s) == [t |-> "S", v |-> s]
AttrN(n) == [t |-> "N", v |-> n]

\* item.get(key).and_then(|v| v.as_s().ok()).unwrap_or(default), and the
\* as_n() form of it
AttrOr(item, key, type, default) ==
    IF key \in DOMAIN item /\ item[key].t = type THEN item[key].v ELSE default

MapInsert(m, k, v) ==
    [x \in DOMAIN m \cup {k} |-> IF x = k THEN v ELSE m[x]]

EmptyMap == [x \in {} |-> ""]

RECURSIVE TokensOfItems(_, _)
TokensOfItems(items, map) ==
    IF items = <<>> THEN map
    ELSE LET item      == Head(items)
             token_str == AttrOr(item, "token", "S", "<NO_TOKEN>")
             ip_str    == AttrOr(item, "ipAddress", "S", "127.0.0.1")
             port_str  == AttrOr(item, "port", "N", "7777")
         IN  TokensOfItems(Tail(items),
                           MapInsert(map, token_str, ip_str \o ":" \o port_str))

\* the Ok(map) that fetch_tokens_from_dynamo returns for a scan of `items`
FetchTokens(items) == TokensOfItems(items, EmptyMap)

Item(tok, ip, port) ==
    [token |-> AttrS(tok), ipAddress |-> AttrS(ip), port |-> AttrN(port)]

\* The table contents the environment switches between.
TableA ==
    << Item("cm9vbQ==", "10.0.101.69", "7777"),
       Item("Z2FtZQ==", "10.0.0.2", "7000"),
       Item("cm8=", "10.0.101.69", "7777") >>

TableB ==
    << Item("cm9vbQ==", "10.0.101.69", "7777"),
       Item("cm9vbQ==", "10.0.0.2", "7000"),
       Item("Z2FtZQ==", "10.0.0.2", "99999"),
       [token |-> AttrS("Z2E=")],
       [ipAddress |-> AttrS("10.0.0.2"), port |-> AttrS("7000")] >>

Tables == {TableA, TableB}

-----------------------------------------------------------------------------
(* Packets                                                                 *)

Workers == {"w1", "w2"}

Sources == {SocketAddrV4(127, 0, 0, 1, 5555), SocketAddrV4(127, 0, 0, 1, 5556)}

\* "roomH", "game!", "ro"
Payloads == {<<114, 111, 111, 109, 72>>, <<103, 97, 109, 101, 33>>, <<114, 111>>}

\* what the filter chain hands to read in ctx.destinations
InitialDestinations == {<<SocketAddrV4(10, 9, 9, 9, 9000)>>}

HandshakeBytesChoices == {2, 4}

NoContext == [source |-> None, contents |-> <<>>, destinations |-> <<>>]

\* ctx.contents.split_prefix(needed): the prefix is returned, the buffer
\* keeps the rest
SplitPrefix(contents, needed) ==
    [prefix |-> SubSeq(contents, 1, needed),
     rest   |-> SubSeq(contents, needed + 1, Len(contents))]

-----------------------------------------------------------------------------
(* SessionRouter                                                           *)

\* SessionRouter::new: empty maps, the refresh task spawned at its first scan
SrInit(handshakes) ==
    /\ config \in [handshake_bytes : handshakes,
                   dynamo_table_name : {"MyMatchmakingTable"}]
    /\ sessions = [s \in {} |-> None]
    /\ token_map = EmptyMap
    /\ locks = [sessions |-> "none", token_map |-> "none"]
    /\ poll_pc = "scan"
    /\ latest = EmptyMap
    /\ table \in Tables
    /\ rpc = [w \in Workers |-> "idle"]
    /\ ctx = [w \in Workers |-> NoContext]
    /\ call = [w \in Workers |-> NoContext]
    /\ token = [w \in Workers |-> ""]
    /\ ip_port = [w \in Workers |-> None]
    /\ endpoint = [w \in Workers |-> None]
    /\ result = [w \in Workers |-> "none"]

Acquire(lock, who) == [locks EXCEPT ![lock] = who]
Release(lock) == [locks EXCEPT ![lock] = "none"]

\* fault: an unknown token falls back to a default endpoint
LookupEndpointOrDefault(map, tok) ==
    IF tok \in DOMAIN map
    THEN LET parsed == ParseEndpointAddress(map[tok])
         IN  IF parsed = None THEN None ELSE Some(NewEndpoint(parsed[1]))
    ELSE Some(NewEndpoint(SocketAddrV4(127, 0, 0, 1, 7777)))

\* fault: a mapped string that does not parse falls back to a default endpoint
LookupEndpointLenient(map, tok) ==
    IF tok \in DOMAIN map
    THEN LET parsed == ParseEndpointAddress(map[tok])
         IN  IF parsed = None
             THEN Some(NewEndpoint(SocketAddrV4(127, 0, 0, 1, 7777)))
             ELSE Some(NewEndpoint(parsed[1]))
    ELSE None

\* locked_map.get(token).and_then(|ip_port| ip_port.parse().ok()).map(Endpoint::new)
LookupEndpoint(map, tok) ==
    IF tok \in DOMAIN map
    THEN LET parsed == ParseEndpointAddress(map[tok])
         IN  IF parsed = None THEN None ELSE Some(NewEndpoint(parsed[1]))
    ELSE None

\* fault: push without the clear
PushOnly(c, address) == [c EXCEPT !.destinations = Append(@, address)]

\* ctx.destinations.clear(); ctx.destinations.push(address)
ClearAndPush(c, address) == [c EXCEPT !.destinations = <<address>>]

\* fault: the clear is missing
ClearNothing(c) == c

\* ctx.destinations.clear()
ClearDestinations(c) == [c EXCEPT !.destinations = <<>>]

\* fault: insert only when the source has no entry yet
SessionsInsertIfAbsent(map, src, ep) ==
    IF src \in DOMAIN map THEN map ELSE MapInsert(map, src, ep)

\* fault: the map is rebuilt with the new entry alone
SessionsInsertAlone(map, src, ep) == [x \in {src} |-> ep]

\* fault: the endpoint is stored for every source that has a session, too
SessionsInsertForAll(map, src, ep) == [x \in DOMAIN map \cup {src} |-> ep]

\* self.sessions.lock().insert(src.clone(), endpoint.clone())
SessionsInsert(map, src, ep) == MapInsert(map, src, ep)

\* The proxy calls read with a packet's context; read starts by taking the
\* sessions lock.
ReadStart(w, src, payload, dests) ==
    /\ rpc[w] = "idle"
    /\ locks.sessions = "none"
    /\ locks' = Acquire("sessions", w)
    /\ ctx' = [ctx EXCEPT ![w] = [source |-> Some(src), contents |-> payload,
                                  destinations |-> dests]]
    /\ call' = [call EXCEPT ![w] = ctx'[w]]
    /\ rpc' = [rpc EXCEPT ![w] = "check"]
    /\ result' = [result EXCEPT ![w] = "none"]
    /\ UNCHANGED <<config, sessions, token_map, poll_pc, latest, table,
                   token, ip_port, endpoint>>
    /\ UNCHANGED <<lbVars, ipVars, cfVars>>

\* if let Some(ep) = self.sessions.lock().get(&src) { ... return Ok(()) }
ReadCheckSession(w) ==
    /\ rpc[w] = "check"
    /\ locks.sessions = w
    /\ LET src == ctx[w].source[1]
       IN  IF src \in DOMAIN sessions
           THEN /\ ctx' = [ctx EXCEPT ![w] = ClearAndPush(@, sessions[src].address)]
                /\ result' = [result EXCEPT ![w] = "Ok"]
                /\ rpc' = [rpc EXCEPT ![w] = "done"]
           ELSE /\ rpc' = [rpc EXCEPT ![w] = "handshake"]
                /\ UNCHANGED <<ctx, result>>
    /\ locks' = Release("sessions")
    /\ UNCHANGED <<config, sessions, token_map, poll_pc, latest, table,
                   call, token, ip_port, endpoint>>
    /\ UNCHANGED <<lbVars, ipVars, cfVars>>

\* the length check; split_prefix and encode; lookup_endpoint takes the
\* token_map lock
ReadHandshake(w) ==
    /\ rpc[w] = "handshake"
    /\ LET needed == config.handshake_bytes
       IN  IF Len(ctx[w].contents) < needed
           THEN /\ ctx' = [ctx EXCEPT ![w] = ClearDestinations(@)]
                /\ result' = [result EXCEPT ![w] = "Ok"]
                /\ rpc' = [rpc EXCEPT ![w] = "done"]
                /\ UNCHANGED <<token, locks>>
           ELSE LET split == SplitPrefix(ctx[w].contents, needed)
                IN  /\ locks.token_map = "none"
                    /\ locks' = Acquire("token_map", w)
                    /\ ctx' = [ctx EXCEPT ![w].contents = split.rest]
                    /\ token' = [token EXCEPT ![w] = Base64Encode(split.prefix)]
                    /\ rpc' = [rpc EXCEPT ![w] = "lookup"]
                    /\ UNCHANGED result
    /\ UNCHANGED <<config, sessions, token_map, poll_pc, latest, table,
                   call, ip_port, endpoint>>
    /\ UNCHANGED <<lbVars, ipVars, cfVars>>

\* fault: the lookup's guard is still held when read goes on
ReadLookupKeepsGuard(w) ==
    /\ rpc[w] = "lookup"
    /\ locks.token_map = w
    /\ ip_port' = [ip_port EXCEPT ![w] =
                     IF token[w] \in DOMAIN token_map
                     THEN Some(token_map[token[w]]) ELSE None]
    /\ endpoint' = [endpoint EXCEPT ![w] = LookupEndpoint(token_map, token[w])]
    /\ IF endpoint'[w] # None
       THEN /\ rpc' = [rpc EXCEPT ![w] = "insert_lock"]
            /\ UNCHANGED <<ctx, result>>
       ELSE /\ ctx' = [ctx EXCEPT ![w] = ClearDestinations(@)]
            /\ result' = [result EXCEPT ![w] = "Ok"]
            /\ rpc' = [rpc EXCEPT ![w] = "done"]
    /\ UNCHANGED <<config, sessions, token_map, locks, poll_pc, latest, table,
                   call, token>>
    /\ UNCHANGED <<lbVars, ipVars, cfVars>>

\* lookup_endpoint under the token_map lock; the miss branch of read
ReadLookup(w) ==
    /\ rpc[w] = "lookup"
    /\ locks.token_map = w
    /\ locks' = Release("token_map")
    /\ ip_port' = [ip_port EXCEPT ![w] =
                     IF token[w] \in DOMAIN token_map
                     THEN Some(token_map[token[w]]) ELSE None]
    /\ endpoint' = [endpoint EXCEPT ![w] = LookupEndpoint(token_map, token[w])]
    /\ IF endpoint'[w] # None
       THEN /\ rpc' = [rpc EXCEPT ![w] = "insert_lock"]
            /\ UNCHANGED <<ctx, result>>
       ELSE /\ ctx' = [ctx EXCEPT ![w] = ClearDestinations(@)]
            /\ result' = [result EXCEPT ![w] = "Ok"]
            /\ rpc' = [rpc EXCEPT ![w] = "done"]
    /\ UNCHANGED <<config, sessions, token_map, poll_pc, latest, table,
                   call, token>>
    /\ UNCHANGED <<lbVars, ipVars, cfVars>>

\* self.sessions.lock()
ReadLockSessions(w) ==
    /\ rpc[w] = "insert_lock"
    /\ locks.sessions = "none"
    /\ locks' = Acquire("sessions", w)
    /\ rpc' = [rpc EXCEPT ![w] = "insert"]
    /\ UNCHANGED <<config, sessions, token_map, poll_pc, latest, table,
                   ctx, call, token, ip_port, endpoint, result>>
    /\ UNCHANGED <<lbVars, ipVars, cfVars>>

\* .insert(src.clone(), endpoint.clone()); clear; push; Ok(())
ReadInsert(w) ==
    /\ rpc[w] = "insert"
    /\ locks.sessions = w
    /\ sessions' = SessionsInsert(sessions, ctx[w].source[1], endpoint[w][1])
    /\ locks' = Release("sessions")
    /\ ctx' = [ctx EXCEPT ![w] = ClearAndPush(@, endpoint[w][1].address)]
    /\ result' = [result EXCEPT ![w] = "Ok"]
    /\ rpc' = [rpc EXCEPT ![w] = "done"]
    /\ UNCHANGED <<config, token_map, poll_pc, latest, table,
                   call, token, ip_port, endpoint>>
    /\ UNCHANGED <<lbVars, ipVars, cfVars>>

\* read has returned; the worker takes its next packet
ReadReturn(w) ==
    /\ rpc[w] = "done"
    /\ rpc' = [rpc EXCEPT ![w] = "idle"]
    /\ ctx' = [ctx EXCEPT ![w] = NoContext]
    /\ call' = [call EXCEPT ![w] = NoContext]
    /\ token' = [token EXCEPT ![w] = ""]
    /\ ip_port' = [ip_port EXCEPT ![w] = None]
    /\ endpoint' = [endpoint EXCEPT ![w] = None]
    /\ result' = [result EXCEPT ![w] = "none"]
    /\ UNCHANGED <<config, sessions, token_map, locks, poll_pc, latest, table>>
    /\ UNCHANGED <<lbVars, ipVars, cfVars>>

\* SessionRouter::write: Ok(()) and nothing else
Write(w) ==
    /\ rpc[w] = "idle"
    /\ UNCHANGED <<srVars, lbVars, ipVars, cfVars>>

\* fetch_tokens_from_dynamo(...).await returned Ok(latest)
RefreshScanOk ==
    /\ poll_pc = "scan"
    /\ latest' = FetchTokens(table)
    /\ poll_pc' = "store_lock"
    /\ UNCHANGED <<config, sessions, token_map, locks, table,
                   rpc, ctx, call, token, ip_port, endpoint, result>>
    /\ UNCHANGED <<lbVars, ipVars, cfVars>>

\* fault: a failed scan empties the cached map
RefreshScanErrClears ==
    /\ poll_pc = "scan"
    /\ poll_pc' = "warn"
    /\ token_map' = EmptyMap
    /\ UNCHANGED <<config, sessions, locks, latest, table,
                   rpc, ctx, call, token, ip_port, endpoint, result>>
    /\ UNCHANGED <<lbVars, ipVars, cfVars>>

\* fetch_tokens_from_dynamo(...).await returned Err(e): the Err arm is entered
RefreshScanErr ==
    /\ poll_pc = "scan"
    /\ poll_pc' = "warn"
    /\ UNCHANGED <<config, sessions, token_map, locks, latest, table,
                   rpc, ctx, call, token, ip_port, endpoint, result>>
    /\ UNCHANGED <<lbVars, ipVars, cfVars>>

\* fault: the task ends after the warning
RefreshWarnExits ==
    /\ poll_pc = "warn"
    /\ poll_pc' = "exited"
    /\ UNCHANGED <<config, sessions, token_map, locks, latest, table,
                   rpc, ctx, call, token, ip_port, endpoint, result>>
    /\ UNCHANGED <<lbVars, ipVars, cfVars>>

\* warn!("Failed to fetch token map: {e}"); the match is over, the task
\* goes to sleep
RefreshWarn ==
    /\ poll_pc = "warn"
    /\ poll_pc' = "sleep"
    /\ UNCHANGED <<config, sessions, token_map, locks, latest, table,
                   rpc, ctx, call, token, ip_port, endpoint, result>>
    /\ UNCHANGED <<lbVars, ipVars, cfVars>>

\* tm.lock()
RefreshLock ==
    /\ poll_pc = "store_lock"
    /\ locks.token_map = "none"
    /\ locks' = Acquire("token_map", "poll")
    /\ poll_pc' = "store"
    /\ UNCHANGED <<config, sessions, token_map, latest, table,
                   rpc, ctx, call, token, ip_port, endpoint, result>>
    /\ UNCHANGED <<lbVars, ipVars, cfVars>>

\* fault: the guard lives on into the sleep
RefreshStoreKeepsGuard ==
    /\ poll_pc = "store"
    /\ locks.token_map = "poll"
    /\ token_map' = latest
    /\ latest' = EmptyMap
    /\ poll_pc' = "sleep"
    /\ UNCHANGED <<config, sessions, locks, table,
                   rpc, ctx, call, token, ip_port, endpoint, result>>
    /\ UNCHANGED <<lbVars, ipVars, cfVars>>

\* fault: the scan result is merged into the cached map
RefreshStoreMerges ==
    /\ poll_pc = "store"
    /\ locks.token_map = "poll"
    /\ token_map' = [x \in DOMAIN token_map \cup DOMAIN latest |->
                        IF x \in DOMAIN latest THEN latest[x] ELSE token_map[x]]
    /\ latest' = EmptyMap
    /\ locks' = Release("token_map")
    /\ poll_pc' = "sleep"
    /\ UNCHANGED <<config, sessions, table,
                   rpc, ctx, call, token, ip_port, endpoint, result>>
    /\ UNCHANGED <<lbVars, ipVars, cfVars>>

\* *guard = latest; the guard is dropped; the task goes to sleep
RefreshStore ==
    /\ poll_pc = "store"
    /\ locks.token_map = "poll"
    /\ token_map' = latest
    /\ latest' = EmptyMap
    /\ locks' = Release("token_map")
    /\ poll_pc' = "sleep"
    /\ UNCHANGED <<config, sessions, table,
                   rpc, ctx, call, token, ip_port, endpoint, result>>
    /\ UNCHANGED <<lbVars, ipVars, cfVars>>

\* tokio::time::sleep(poll_interval).await returned: next iteration of the loop
RefreshWake ==
    /\ poll_pc = "sleep"
    /\ poll_pc' = "scan"
    /\ UNCHANGED <<config, sessions, token_map, locks, latest, table,
                   rpc, ctx, call, token, ip_port, endpoint, result>>
    /\ UNCHANGED <<lbVars, ipVars, cfVars>>

\* the matchmaker rewrites the external table
TableUpdate(t) ==
    /\ table # t
    /\ table' = t
    /\ UNCHANGED <<config, sessions, token_map, locks, poll_pc, latest,
                   rpc, ctx, call, token, ip_port, endpoint, result>>
    /\ UNCHANGED <<lbVars, ipVars, cfVars>>

-----------------------------------------------------------------------------
(* LoadBalancerFilter                                                      *)

\* The model's width of the AtomicUsize counter, the number of packets one
\* behaviour hands to the filter, and the largest candidate set.
CounterBits == 3
MaxCalls == 10
MaxEndpoints == 3

Policies == {"RoundRobin", "Random"}

LbEndpoint(i) == SocketAddrV4(127, 0, 0, i, 8080)

\* a candidate set (UpstreamEndpoints) of n endpoints
Candidates(n) == [i \in 1..n |-> LbEndpoint(i)]

\* UpstreamEndpoints::keep(index): collapse to the endpoint at `index`, an
\* error when the index is out of range
Keep(endpoints, index) ==
    IF index >= 0 /\ index < Len(endpoints)
    THEN [ok |-> TRUE, endpoints |-> <<endpoints[index + 1]>>]
    ELSE [ok |-> FALSE, endpoints |-> endpoints]

\* AtomicUsize::fetch_add(1, Relaxed): wraps at the width of usize
FetchAdd(counter) == (counter + 1) % (2 ^ CounterBits)

\* fault: the modulo is missing
RoundRobinIndexNoModulo(count, num_endpoints) == count

\* count % num_endpoints
RoundRobinIndex(count, num_endpoints) == count % num_endpoints

\* fault: the last index is never drawn
GenRangeShort(low, high) == low..(high - 2)

\* the values gen_range(low, high) can return
GenRange(low, high) == low..(high - 1)

LbInit(policies) ==
    /\ policy \in policies
    /\ next_endpoint = 0
    /\ fetches = 0
    /\ received = 0
    /\ lb_pc = [w \in Workers |-> "idle"]
    /\ lb_endpoints = [w \in Workers |-> <<>>]
    /\ lb_given = [w \in Workers |-> <<>>]
    /\ lb_count = [w \in Workers |-> 0]
    /\ lb_ordinal = [w \in Workers |-> 0]
    /\ lb_idx = [w \in Workers |-> -1]
    /\ lb_sizes = {}
    /\ lb_overlap = FALSE
    /\ lb_selected = [i \in 0..(MaxEndpoints - 1) |-> 0]

\* on_downstream_receive is called with a packet's context
LbReceive(w, n) ==
    /\ lb_pc[w] = "idle"
    /\ received < MaxCalls
    /\ received' = received + 1
    /\ lb_endpoints' = [lb_endpoints EXCEPT ![w] = Candidates(n)]
    /\ lb_given' = [lb_given EXCEPT ![w] = Candidates(n)]
    /\ lb_pc' = [lb_pc EXCEPT ![w] = "choose"]
    /\ lb_sizes' = lb_sizes \cup {n}
    /\ lb_overlap' = (lb_overlap \/ \E v \in Workers \ {w} : lb_pc[v] # "idle")
    /\ UNCHANGED <<policy, next_endpoint, fetches, lb_count, lb_ordinal, lb_idx,
                   lb_selected>>
    /\ UNCHANGED <<srVars, ipVars, cfVars>>

\* let count = self.next_endpoint.fetch_add(1, Ordering::Relaxed);
RoundRobinFetchAdd(w) ==
    /\ policy = "RoundRobin"
    /\ lb_pc[w] = "choose"
    /\ lb_count' = [lb_count EXCEPT ![w] = next_endpoint]
    /\ next_endpoint' = FetchAdd(next_endpoint)
    /\ lb_ordinal' = [lb_ordinal EXCEPT ![w] = fetches]
    /\ fetches' = fetches + 1
    /\ lb_pc' = [lb_pc EXCEPT ![w] = "keep"]
    /\ UNCHANGED <<policy, received, lb_endpoints, lb_given, lb_idx,
                   lb_sizes, lb_overlap, lb_selected>>
    /\ UNCHANGED <<srVars, ipVars, cfVars>>

\* endpoints.keep(count % endpoints.size()).expect(...)
RoundRobinKeep(w) ==
    /\ policy = "RoundRobin"
    /\ lb_pc[w] = "keep"
    /\ LET idx  == RoundRobinIndex(lb_count[w], Len(lb_endpoints[w]))
           kept == Keep(lb_endpoints[w], idx)
       IN  /\ lb_idx' = [lb_idx EXCEPT ![w] = idx]
           /\ lb_endpoints' = [lb_endpoints EXCEPT ![w] = kept.endpoints]
           /\ lb_pc' = [lb_pc EXCEPT ![w] = IF kept.ok THEN "done" ELSE "panicked"]
           /\ lb_selected' = IF kept.ok THEN [lb_selected EXCEPT ![idx] = @ + 1]
                             ELSE lb_selected
    /\ UNCHANGED <<policy, next_endpoint, fetches, received, lb_given,
                   lb_count, lb_ordinal, lb_sizes, lb_overlap>>
    /\ UNCHANGED <<srVars, ipVars, cfVars>>

\* let idx = thread_rng().gen_range(0, endpoints.size()); endpoints.keep(idx).expect(...)
RandomChoose(w) ==
    /\ policy = "Random"
    /\ lb_pc[w] = "choose"
    /\ \E idx \in GenRange(0, Len(lb_endpoints[w])) :
          LET kept == Keep(lb_endpoints[w], idx)
          IN  /\ lb_idx' = [lb_idx EXCEPT ![w] = idx]
              /\ lb_endpoints' = [lb_endpoints EXCEPT ![w] = kept.endpoints]
              /\ lb_pc' = [lb_pc EXCEPT ![w] = IF kept.ok THEN "done" ELSE "panicked"]
              /\ lb_selected' = IF kept.ok THEN [lb_selected EXCEPT ![idx] = @ + 1]
                                ELSE lb_selected
    /\ UNCHANGED <<policy, next_endpoint, fetches, received, lb_given,
                   lb_count, lb_ordinal, lb_sizes, lb_overlap>>
    /\ UNCHANGED <<srVars, ipVars, cfVars>>

\* Some(ctx.into()): the response leaves the filter
LbReturn(w) ==
    /\ lb_pc[w] = "done"
    /\ lb_pc' = [lb_pc EXCEPT ![w] = "idle"]
    /\ lb_endpoints' = [lb_endpoints EXCEPT ![w] = <<>>]
    /\ lb_given' = [lb_given EXCEPT ![w] = <<>>]
    /\ lb_count' = [lb_count EXCEPT ![w] = 0]
    /\ lb_ordinal' = [lb_ordinal EXCEPT ![w] = 0]
    /\ lb_idx' = [lb_idx EXCEPT ![w] = -1]
    /\ UNCHANGED <<policy, next_endpoint, fetches, received, lb_sizes, lb_overlap,
                   lb_selected>>
    /\ UNCHANGED <<srVars, ipVars, cfVars>>

LbNext ==
    \/ \E w \in Workers, n \in 1..MaxEndpoints : LbReceive(w, n)
    \/ \E w \in Workers : RoundRobinFetchAdd(w)
    \/ \E w \in Workers : RoundRobinKeep(w)
    \/ \E w \in Workers : RandomChoose(w)
    \/ \E w \in Workers : LbReturn(w)

-----------------------------------------------------------------------------
(* SourceIpRouter                                                          *)

\* bit i (0 = most significant) of an address given as octets
Bit(octets, i) == (octets[(i \div 8) + 1] \div (2 ^ (7 - (i % 8)))) % 2

\* IpNetwork::contains: same family and the first `prefix` bits agree
NetworkContains(net, ip) ==
    /\ net.addr.v = ip.v
    /\ \A i \in 0..(net.prefix - 1) : Bit(net.addr.octets, i) = Bit(ip.octets, i)

\* Ipv6Addr::to_ipv4: ::a.b.c.d and ::ffff:a.b.c.d convert, nothing else does
ToIpv4(ip) ==
    IF /\ \A i \in 1..10 : ip.octets[i] = 0
       /\ <<ip.octets[11], ip.octets[12]>> \in {<<0, 0>>, <<255, 255>>}
    THEN Some(IpV4(ip.octets[13], ip.octets[14], ip.octets[15], ip.octets[16]))
    ELSE None

\* Cidr::contains
CidrContains(cidr, ip) ==
    IF cidr.addr.v = 4 /\ ip.v = 6
    THEN LET mapped_v4 == ToIpv4(ip)
         IN  IF mapped_v4 # None THEN NetworkContains(cidr, mapped_v4[1]) ELSE FALSE
    ELSE NetworkContains(cidr, ip)

\* fault: all() in place of any()
RouteMatchesAll(route, ip) ==
    \A i \in 1..Len(route.sources) : CidrContains(route.sources[i], ip)

\* fault: a route without sources matches every address
RouteMatchesOrEmpty(route, ip) ==
    \/ Len(route.sources) = 0
    \/ \E i \in 1..Len(route.sources) : CidrContains(route.sources[i], ip)

\* route.sources.iter().any(|cidr| cidr.contains(src_ip))
RouteMatches(route, ip) ==
    \E i \in 1..Len(route.sources) : CidrContains(route.sources[i], ip)

\* str::parse::<SocketAddr>() on the endpoint strings the model uses
ParseSocketAddr(s) ==
    CASE s = "10.0.0.1:7000" -> Some(SocketAddrV4(10, 0, 0, 1, 7000))
      [] s = "10.0.0.2:7000" -> Some(SocketAddrV4(10, 0, 0, 2, 7000))
      [] s = "10.0.0.3:7000" -> Some(SocketAddrV4(10, 0, 0, 3, 7000))
      [] OTHER               -> None

\* ctx.destinations.clear(); ctx.destinations.push(EndpointAddress::from(socket_addr))
RewriteDestinations(c, socket_addr) == [c EXCEPT !.destinations = <<socket_addr>>]

Cidr(addr, prefix) == [addr |-> addr, prefix |-> prefix]
Route(sources, ep) == [sources |-> sources, endpoint |-> ep]

Net10      == Cidr(IpV4(10, 0, 0, 0), 8)
Net10_1    == Cidr(IpV4(10, 1, 0, 0), 16)
Net192_168 == Cidr(IpV4(192, 168, 0, 0), 16)
NetAllV4   == Cidr(IpV4(0, 0, 0, 0), 0)
NetDoc6    == Cidr(IpV6(<<32, 1, 13, 184, 0, 0, 0, 0, 0, 0, 0, 0, 0, 0, 0, 0>>), 32)

\* The route lists a filter instance is configured with.
RouteConfigs ==
    { <<>>,
      << Route(<<Net10>>, "10.0.0.1:7000") >>,
      << Route(<<Net10>>, "10.0.0.1:7000"), Route(<<Net10_1>>, "10.0.0.2:7000") >>,
      << Route(<<Net10_1>>, "10.0.0.2:7000"), Route(<<Net10>>, "10.0.0.1:7000") >>,
      << Route(<<Net192_168, NetDoc6>>, "10.0.0.3:7000"),
         Route(<<NetAllV4>>, "10.0.0.1:7000") >>,
      << Route(<<Net10>>, "not an address"), Route(<<Net10>>, "10.0.0.2:7000") >>,
      << Route(<<Net192_168>>, "localhost:7000"), Route(<<>>, "10.0.0.3:7000"),
         Route(<<Net10_1>>, "10.0.0.2:7000") >> }

\* 10.1.2.3, 10.200.0.9, 192.168.1.1, 172.16.0.1, ::ffff:10.1.2.3,
\* ::10.1.2.3, ::ffff:172.16.0.1, 2001:db8::1, 2001:db9::1
IpSources ==
    { IpV4(10, 1, 2, 3), IpV4(10, 200, 0, 9), IpV4(192, 168, 1, 1), IpV4(172, 16, 0, 1),
      IpV6(<<0, 0, 0, 0, 0, 0, 0, 0, 0, 0, 255, 255, 10, 1, 2, 3>>),
      IpV6(<<0, 0, 0, 0, 0, 0, 0, 0, 0, 0, 0, 0, 10, 1, 2, 3>>),
      IpV6(<<0, 0, 0, 0, 0, 0, 0, 0, 0, 0, 255, 255, 172, 16, 0, 1>>),
      IpV6(<<32, 1, 13, 184, 0, 0, 0, 0, 0, 0, 0, 0, 0, 0, 0, 1>>),
      IpV6(<<32, 1, 13, 185, 0, 0, 0, 0, 0, 0, 0, 0, 0, 0, 0, 1>>) }

IpInitialDestinations ==
    { <<>>, <<SocketAddrV4(10, 9, 9, 9, 9000)>>,
      <<SocketAddrV4(10, 9, 9, 9, 9000), SocketAddrV4(10, 9, 9, 8, 9000)>> }

\* SourceIpRouter::new(cfg)
IpInit(configs) ==
    /\ routes \in configs
    /\ ip_pc = "idle"
    /\ ip_ctx = NoContext
    /\ ip_call = NoContext
    /\ ip_next = 1
    /\ ip_consulted = {}
    /\ ip_result = "none"

\* read is called; let src_ip = ctx.source.to_socket_addr()?.ip();
IpReadStart(src, dests) ==
    /\ ip_pc = "idle"
    /\ ip_ctx' = [source |-> Some([ip |-> src, port |-> 5555]), contents |-> <<>>,
                  destinations |-> dests]
    /\ ip_call' = ip_ctx'
    /\ ip_next' = 1
    /\ ip_consulted' = {}
    /\ ip_result' = "none"
    /\ ip_pc' = "loop"
    /\ UNCHANGED routes
    /\ UNCHANGED <<srVars, lbVars, cfVars>>

\* fault: a matching route whose endpoint does not parse is passed over
IpReadRouteSkipsInvalid ==
    /\ ip_pc = "loop"
    /\ ip_next <= Len(routes)
    /\ ip_consulted' = ip_consulted \cup {ip_next}
    /\ LET route  == routes[ip_next]
           src_ip == ip_ctx.source[1].ip
       IN  IF RouteMatches(route, src_ip) /\ ParseSocketAddr(route.endpoint) # None
           THEN /\ ip_pc' = "done"
                /\ UNCHANGED ip_next
                /\ ip_ctx' = RewriteDestinations(ip_ctx, ParseSocketAddr(route.endpoint)[1])
                /\ ip_result' = "Ok"
           ELSE /\ ip_next' = ip_next + 1
                /\ UNCHANGED <<ip_pc, ip_ctx, ip_result>>
    /\ UNCHANGED <<routes, ip_call>>
    /\ UNCHANGED <<srVars, lbVars, cfVars>>

\* one iteration of `for route in &self.routes`
IpReadRoute ==
    /\ ip_pc = "loop"
    /\ ip_next <= Len(routes)
    /\ ip_consulted' = ip_consulted \cup {ip_next}
    /\ LET route  == routes[ip_next]
           src_ip == ip_ctx.source[1].ip
       IN  IF RouteMatches(route, src_ip)
           THEN LET socket_addr == ParseSocketAddr(route.endpoint)
                IN  /\ ip_pc' = "done"
                    /\ UNCHANGED ip_next
                    /\ IF socket_addr = None
                       THEN /\ ip_result' = "Err(Invalid endpoint address)"
                            /\ UNCHANGED ip_ctx
                       ELSE /\ ip_ctx' = RewriteDestinations(ip_ctx, socket_addr[1])
                            /\ ip_result' = "Ok"
           ELSE /\ ip_next' = ip_next + 1
                /\ UNCHANGED <<ip_pc, ip_ctx, ip_result>>
    /\ UNCHANGED <<routes, ip_call>>
    /\ UNCHANGED <<srVars, lbVars, cfVars>>

\* the loop ran out of routes: Ok(())
IpReadNoMatch ==
    /\ ip_pc = "loop"
    /\ ip_next > Len(routes)
    /\ ip_result' = "Ok"
    /\ ip_pc' = "done"
    /\ UNCHANGED <<routes, ip_ctx, ip_call, ip_next, ip_consulted>>
    /\ UNCHANGED <<srVars, lbVars, cfVars>>

\* read has returned
IpReadReturn ==
    /\ ip_pc = "done"
    /\ ip_pc' = "idle"
    /\ ip_ctx' = NoContext
    /\ ip_call' = NoContext
    /\ ip_next' = 1
    /\ ip_consulted' = {}
    /\ ip_result' = "none"
    /\ UNCHANGED routes
    /\ UNCHANGED <<srVars, lbVars, cfVars>>

\* SourceIpRouter::write: Ok(()) and nothing else
IpWrite ==
    /\ ip_pc = "idle"
    /\ UNCHANGED <<srVars, lbVars, ipVars, cfVars>>

IpNext ==
    \/ \E src \in IpSources, dests \in IpInitialDestinations : IpReadStart(src, dests)
    \/ IpReadRoute
    \/ IpReadNoMatch
    \/ IpReadReturn
    \/ IpWrite

-----------------------------------------------------------------------------
(* SessionRouterFactory and the two forms of SessionRouterConfig           *)

\* The model's width of u32 (usize has CounterBits bits: wider, as on the
\* 64-bit targets the proxy is built for) and the number of routers one
\* behaviour builds.
U32Bits == 2
MaxRouters == 2

UsizeBits == CounterBits

\* fn default_handshake_bytes() and fn default_table_name()
default_handshake_bytes == 4
default_table_name == "MyMatchmakingTable"

\* serde_json::Value
JsonNull      == [t |-> "null"]
JsonNumber(n) == [t |-> "number", n |-> n]
JsonString(s) == [t |-> "string", s |-> s]
JsonObject(f) == [t |-> "object", fields |-> f]

NewConfig(n, name) == [handshake_bytes |-> n, dynamo_table_name |-> name]

\* serde_json::from_value::<SessionRouterConfig>: Some(config) for Ok, None
\* for Err. The derive takes a map whose keys are among the two fields
\* (deny_unknown_fields), a usize for handshake_bytes and a string for
\* dynamo_table_name; a field left out takes its default.
FromValue(json) ==
    IF /\ json.t = "object"
       /\ DOMAIN json.fields \subseteq {"handshake_bytes", "dynamo_table_name"}
       /\ "handshake_bytes" \in DOMAIN json.fields
          => /\ json.fields["handshake_bytes"].t = "number"
             /\ json.fields["handshake_bytes"].n \in 0..(2 ^ UsizeBits - 1)
       /\ "dynamo_table_name" \in DOMAIN json.fields
          => json.fields["dynamo_table_name"].t = "string"
    THEN Some(NewConfig(
            IF "handshake_bytes" \in DOMAIN json.fields
            THEN json.fields["handshake_bytes"].n ELSE default_handshake_bytes,
            IF "dynamo_table_name" \in DOMAIN json.fields
            THEN json.fields["dynamo_table_name"].s ELSE default_table_name))
    ELSE None

\* crate::config::ConfigType
Static(json_val) == [kind |-> "Static", value |-> json_val]
Dynamic == [kind |-> "Dynamic"]

\* The documents create_filter is given as a static config: null, {},
\* well-formed ones, and ones with a negative, a textual and a too large
\* handshake_bytes, a numeric table name, an unknown field, a bare string.
StaticValues ==
    { JsonNull,
      JsonObject([x \in {} |-> JsonNull]),
      JsonObject([handshake_bytes |-> JsonNumber(2)]),
      JsonObject([dynamo_table_name |-> JsonString("Tokens")]),
      JsonObject([handshake_bytes |-> JsonNumber(4),
                  dynamo_table_name |-> JsonString("Tokens")]),
      JsonObject([handshake_bytes |-> JsonNumber(-1)]),
      JsonObject([handshake_bytes |-> JsonString("4")]),
      JsonObject([handshake_bytes |-> JsonNumber(2 ^ UsizeBits)]),
      JsonObject([dynamo_table_name |-> JsonNumber(7)]),
      JsonObject([handshake_bytes |-> JsonNumber(4), table |-> JsonString("Tokens")]),
      JsonString("MyMatchmakingTable") }

\* CreateFilterArgs.config: Option<ConfigType>
ConfigArgs == {None, Some(Dynamic)} \cup {Some(Static(j)) : j \in StaticValues}

\* TryFrom<SessionRouterConfig> for SessionRouterConfigProto: always Ok,
\* `config.handshake_bytes as u32` keeps the low 32 bits
ProtoFromConfig(c) ==
    [handshake_bytes   |-> c.handshake_bytes % (2 ^ U32Bits),
     dynamo_table_name |-> c.dynamo_table_name]

\* TryFrom<SessionRouterConfigProto> for SessionRouterConfig: always Ok,
\* `proto.handshake_bytes as usize`
ConfigFromProto(p) ==
    [handshake_bytes   |-> p.handshake_bytes % (2 ^ UsizeBits),
     dynamo_table_name |-> p.dynamo_table_name]

TableNames == {default_table_name, ""}

\* every SessionRouterConfig and every SessionRouterConfigProto over the
\* model's widths and table names
Configs == [handshake_bytes : 0..(2 ^ UsizeBits - 1), dynamo_table_name : TableNames]
Protos  == [handshake_bytes : 0..(2 ^ U32Bits - 1), dynamo_table_name : TableNames]

\* factory(dynamo_client): a factory, nothing created or converted yet
CfInit(clients) ==
    /\ dynamo_client \in clients
    /\ cf_pc = "idle"
    /\ cf_args = None
    /\ cf_result = "none"
    /\ routers = 0
    /\ poll_handles = 0
    /\ cv_pc = "idle"
    /\ cv_given = None
    /\ cv_mid = None
    /\ cv_out = None

\* fault: the router is built, and its task spawned, before the client check
CreateFilterBuildsFirst(args_config) ==
    /\ cf_pc = "idle"
    /\ routers < MaxRouters
    /\ cf_args' = args_config
    /\ cf_pc' = "done"
    /\ IF args_config # None /\ args_config[1].kind = "Dynamic"
       THEN /\ cf_result' = "Err(NotFound)"
            /\ UNCHANGED <<routers, poll_handles>>
       ELSE LET config_val == IF args_config = None THEN JsonNull
                              ELSE args_config[1].value
                parsed     == FromValue(config_val)
            IN  IF parsed = None
                THEN /\ cf_result' = "Err(DeserializeFailed)"
                     /\ UNCHANGED <<routers, poll_handles>>
                ELSE /\ poll_handles' = poll_handles + 1
                     /\ routers' = routers + 1
                     /\ cf_result' = IF dynamo_client = None THEN "Err(NotFound)"
                                     ELSE "Ok(FilterInstance)"
    /\ UNCHANGED <<dynamo_client, cv_pc, cv_given, cv_mid, cv_out>>
    /\ UNCHANGED <<srVars, lbVars, ipVars>>

\* create_filter(args), from its entry to its return: the match on
\* args.config, from_value, the client check, then SessionRouter::new, which
\* spawns the refresh task and builds the router
CreateFilter(args_config) ==
    /\ cf_pc = "idle"
    /\ routers < MaxRouters
    /\ cf_args' = args_config
    /\ cf_pc' = "done"
    /\ IF args_config # None /\ args_config[1].kind = "Dynamic"
       THEN /\ cf_result' = "Err(NotFound)"
            /\ UNCHANGED <<routers, poll_handles>>
       ELSE LET config_val == IF args_config = None THEN JsonNull
                              ELSE args_config[1].value
                parsed     == FromValue(config_val)
            IN  IF parsed = None
                THEN /\ cf_result' = "Err(DeserializeFailed)"
                     /\ UNCHANGED <<routers, poll_handles>>
                ELSE IF dynamo_client = None
                THEN /\ cf_result' = "Err(NotFound)"
                     /\ UNCHANGED <<routers, poll_handles>>
                ELSE /\ poll_handles' = poll_handles + 1
                     /\ routers' = routers + 1
                     /\ cf_result' = "Ok(FilterInstance)"
    /\ UNCHANGED <<dynamo_client, cv_pc, cv_given, cv_mid, cv_out>>
    /\ UNCHANGED <<srVars, lbVars, ipVars>>

\* the caller has taken the result
CreateReturn ==
    /\ cf_pc = "done"
    /\ cf_pc' = "idle"
    /\ cf_args' = None
    /\ cf_result' = "none"
    /\ UNCHANGED <<dynamo_client, routers, poll_handles, cv_pc, cv_given, cv_mid, cv_out>>
    /\ UNCHANGED <<srVars, lbVars, ipVars>>

\* SessionRouterConfigProto::try_from(config)
EncodeConfig(c) ==
    /\ cv_pc = "idle"
    /\ cv_given' = Some(c)
    /\ cv_mid' = Some(ProtoFromConfig(c))
    /\ cv_pc' = "encoded"
    /\ UNCHANGED <<dynamo_client, cf_pc, cf_args, cf_result, routers, poll_handles, cv_out>>
    /\ UNCHANGED <<srVars, lbVars, ipVars>>

\* SessionRouterConfig::try_from of the proto just made
DecodeEncoded ==
    /\ cv_pc = "encoded"
    /\ cv_out' = Some(ConfigFromProto(cv_mid[1]))
    /\ cv_pc' = "config_round_trip"
    /\ UNCHANGED <<dynamo_client, cf_pc, cf_args, cf_result, routers, poll_handles,
                   cv_given, cv_mid>>
    /\ UNCHANGED <<srVars, lbVars, ipVars>>

\* SessionRouterConfig::try_from(proto)
DecodeProto(p) ==
    /\ cv_pc = "idle"
    /\ cv_given' = Some(p)
    /\ cv_mid' = Some(ConfigFromProto(p))
    /\ cv_pc' = "decoded"
    /\ UNCHANGED <<dynamo_client, cf_pc, cf_args, cf_result, routers, poll_handles, cv_out>>
    /\ UNCHANGED <<srVars, lbVars, ipVars>>

\* SessionRouterConfigProto::try_from of the config just made
EncodeDecoded ==
    /\ cv_pc = "decoded"
    /\ cv_out' = Some(ProtoFromConfig(cv_mid[1]))
    /\ cv_pc' = "proto_round_trip"
    /\ UNCHANGED <<dynamo_client, cf_pc, cf_args, cf_result, routers, poll_handles,
                   cv_given, cv_mid>>
    /\ UNCHANGED <<srVars, lbVars, ipVars>>

\* the values of a round trip are dropped
ConvertReturn ==
    /\ cv_pc \in {"config_round_trip", "proto_round_trip"}
    /\ cv_pc' = "idle"
    /\ cv_given' = None
    /\ cv_mid' = None
    /\ cv_out' = None
    /\ UNCHANGED <<dynamo_client, cf_pc, cf_args, cf_result, routers, poll_handles>>
    /\ UNCHANGED <<srVars, lbVars, ipVars>>

CfNext ==
    \/ \E a \in ConfigArgs : CreateFilter(a)
    \/ CreateReturn
    \/ \E c \in Configs : EncodeConfig(c)
    \/ DecodeEncoded
    \/ \E p \in Protos : DecodeProto(p)
    \/ EncodeDecoded
    \/ ConvertReturn

-----------------------------------------------------------------------------
(* Specifications                                                          *)

\* the session router under packet workers and its refresh task
Init ==
    /\ SrInit(HandshakeBytesChoices)
    /\ LbInit({"RoundRobin"})
    /\ IpInit({<<>>})
    /\ CfInit({Some("client")})

Next ==
    \/ \E w \in Workers, src \in Sources, payload \in Payloads,
          dests \in InitialDestinations : ReadStart(w, src, payload, dests)
    \/ \E w \in Workers : ReadCheckSession(w)
    \/ \E w \in Workers : ReadHandshake(w)
    \/ \E w \in Workers : ReadLookup(w)
    \/ \E w \in Workers : ReadLockSessions(w)
    \/ \E w \in Workers : ReadInsert(w)
    \/ \E w \in Workers : ReadReturn(w)
    \/ \E w \in Workers : Write(w)
    \/ RefreshScanOk
    \/ RefreshScanErr
    \/ RefreshWarn
    \/ RefreshLock
    \/ RefreshStore
    \/ RefreshWake
    \/ \E t \in Tables : TableUpdate(t)

Spec == Init /\ [][Next]_vars

\* the load balancer under packet workers
InitLB ==
    /\ SrInit({4})
    /\ table = TableA
    /\ LbInit(Policies)
    /\ IpInit({<<>>})
    /\ CfInit({Some("client")})

SpecLB == InitLB /\ [][LbNext]_vars

\* the source-IP router
InitIP ==
    /\ SrInit({4})
    /\ table = TableA
    /\ LbInit({"RoundRobin"})
    /\ IpInit(RouteConfigs)
    /\ CfInit({Some("client")})

SpecIP == InitIP /\ [][IpNext]_vars

\* the session router's factory and the conversions of its config
InitFactory ==
    /\ SrInit({4})
    /\ table = TableA
    /\ LbInit({"RoundRobin"})
    /\ IpInit({<<>>})
    /\ CfInit({None, Some("client")})

SpecFactory == InitFactory /\ [][CfNext]_vars

\* The refresh task under a fair scheduler, next to one packet worker. The
\* runtime runs the spawned task whenever it can take a step: an awaited scan
\* returns, a sleep ends (weak fairness); the token-map mutex is eventually
\* fair, so a task that finds it free again and again gets it (strong
\* fairness); read is synchronous code that runs on once it has started,
\* and where it takes a mutex it is served like the task (strong fairness).
FairWorkers == {"w1"}

NextFair ==
    \/ \E w \in FairWorkers, src \in Sources, payload \in Payloads,
          dests \in InitialDestinations : ReadStart(w, src, payload, dests)
    \/ \E w \in FairWorkers : ReadCheckSession(w)
    \/ \E w \in FairWorkers : ReadHandshake(w)
    \/ \E w \in FairWorkers : ReadLookup(w)
    \/ \E w \in FairWorkers : ReadLockSessions(w)
    \/ \E w \in FairWorkers : ReadInsert(w)
    \/ \E w \in FairWorkers : ReadReturn(w)
    \/ RefreshScanOk
    \/ RefreshScanErr
    \/ RefreshWarn
    \/ RefreshLock
    \/ RefreshStore
    \/ RefreshWake
    \/ \E t \in Tables : TableUpdate(t)

RefreshFairness ==
    /\ WF_vars(RefreshScanOk \/ RefreshScanErr)
    /\ WF_vars(RefreshWarn)
    /\ SF_vars(RefreshLock)
    /\ WF_vars(RefreshStore)
    /\ WF_vars(RefreshWake)

ReadFairness(w) ==
    /\ WF_vars(\/ ReadCheckSession(w) \/ ReadLookup(w)
               \/ ReadInsert(w) \/ ReadReturn(w))
    /\ SF_vars(ReadHandshake(w))
    /\ SF_vars(ReadLockSessions(w))

Fairness ==
    /\ RefreshFairness
    /\ \A w \in FairWorkers : ReadFairness(w)

SpecFair == Init /\ [][NextFair]_vars /\ Fairness

\* Two packet workers with packets of one source, contending with each other
\* and with the refresh task for the two locks, under the same fair
\* scheduler.
ContendSources == {SocketAddrV4(127, 0, 0, 1, 5555)}
ContendPayloads == {<<114, 111, 111, 109, 72>>}

InitContend ==
    /\ SrInit({4})
    /\ table = TableA
    /\ LbInit({"RoundRobin"})
    /\ IpInit({<<>>})
    /\ CfInit({Some("client")})

NextContend ==
    \/ \E w \in Workers, src \in ContendSources, payload \in ContendPayloads,
          dests \in InitialDestinations : ReadStart(w, src, payload, dests)
    \/ \E w \in Workers : ReadCheckSession(w)
    \/ \E w \in Workers : ReadHandshake(w)
    \/ \E w \in Workers : ReadLookup(w)
    \/ \E w \in Workers : ReadLockSessions(w)
    \/ \E w \in Workers : ReadInsert(w)
    \/ \E w \in Workers : ReadReturn(w)
    \/ RefreshScanOk
    \/ RefreshScanErr
    \/ RefreshWarn
    \/ RefreshLock
    \/ RefreshStore
    \/ RefreshWake
    \/ \E t \in Tables : TableUpdate(t)

ContendFairness ==
    /\ RefreshFairness
    /\ \A w \in Workers : ReadFairness(w)

SpecContend == InitContend /\ [][NextContend]_vars /\ ContendFairness

-----------------------------------------------------------------------------
(* Properties of SessionRouter::read                                       *)

\* the token read computes for the packet worker w was called with
HandshakeToken(w) ==
    Base64Encode(SubSeq(call[w].contents, 1, config.handshake_bytes))

\* worker w's read takes a step
Steps(w) == rpc'[w] # rpc[w]

Source(w) == call[w].source[1]

\* C1: a read for a source without a session, with a payload of at least
\* handshake_bytes bytes whose encoded prefix the token map maps to a
\* parseable "host:port", resolves to that endpoint (the lookup step), and
\* then returns Ok with the destination list holding exactly that endpoint
\* and the session cache holding source -> that endpoint (the insert step).
C1_HitEstablishesSession ==
    [][\A w \in Workers :
        /\ ( /\ rpc[w] = "lookup" /\ Steps(w)
             /\ HandshakeToken(w) \in DOMAIN token_map
             /\ ParseEndpointAddress(token_map[HandshakeToken(w)]) # None )
           => /\ rpc'[w] = "insert_lock"
              /\ ip_port'[w] = Some(token_map[HandshakeToken(w)])
              /\ endpoint'[w] =
                   Some(NewEndpoint(ParseEndpointAddress(token_map[HandshakeToken(w)])[1]))
        /\ (rpc[w] = "insert_lock" /\ Steps(w))
           => rpc'[w] = "insert" /\ endpoint'[w] = endpoint[w] /\ ctx'[w] = ctx[w]
        /\ (rpc[w] = "insert" /\ Steps(w))
           => /\ rpc'[w] = "done"
              /\ result'[w] = "Ok"
              /\ ctx'[w].destinations = <<endpoint[w][1].address>>
              /\ Source(w) \in DOMAIN sessions'
              /\ sessions'[Source(w)] = endpoint[w][1]
              /\ Source(w) \notin DOMAIN sessions
                   => DOMAIN sessions' = DOMAIN sessions \cup {Source(w)}
              /\ \A s \in DOMAIN sessions \ {Source(w)} : sessions'[s] = sessions[s]
    ]_vars

\* C1 witness: the repository's test case has run: handshake_bytes = 4, the
\* payload starts with "room", the list held another address before, and the
\* call returned with 10.0.101.69:7777 as its one destination and the session
\* cached.
C1_Witness ==
    \E w \in Workers :
        /\ rpc[w] = "done"
        /\ config.handshake_bytes = 4
        /\ call[w].contents = <<114, 111, 111, 109, 72>>
        /\ call[w].destinations # <<>>
        /\ token[w] = "cm9vbQ=="
        /\ ip_port[w] = Some("10.0.101.69:7777")
        /\ result[w] = "Ok"
        /\ ctx[w].destinations = <<SocketAddrV4(10, 0, 101, 69, 7777)>>
        /\ Source(w) \in DOMAIN sessions
        /\ sessions[Source(w)] = NewEndpoint(SocketAddrV4(10, 0, 101, 69, 7777))

\* C2: a read for a source that has a session returns Ok with the
\* destination list holding exactly the cached endpoint and the payload as it
\* was passed in, whatever the payload and the token map are; the cache is
\* not written.
C2_EstablishedReusesSession ==
    [][\A w \in Workers :
        (rpc[w] = "check" /\ Steps(w) /\ Source(w) \in DOMAIN sessions)
        => /\ rpc'[w] = "done"
           /\ result'[w] = "Ok"
           /\ ctx'[w].destinations = <<sessions[Source(w)].address>>
           /\ ctx'[w].contents = call[w].contents
           /\ sessions' = sessions
    ]_vars

\* C2 witness: a read was served from the cache although its payload is too
\* short for a handshake, or the token map no longer maps its token to the
\* cached endpoint.
C2_Witness ==
    \E w \in Workers :
        /\ rpc[w] = "done"
        /\ endpoint[w] = None
        /\ token[w] = ""
        /\ ctx[w].destinations # <<>>
        /\ ctx[w].contents = call[w].contents
        /\ token_map # EmptyMap
        /\ \/ Len(call[w].contents) < config.handshake_bytes
           \/ LookupEndpoint(token_map, HandshakeToken(w))
                # Some(NewEndpoint(ctx[w].destinations[1]))

\* C3: once the session cache holds source -> E, the endpoint stored for that
\* source never changes.
C3_SessionWrittenOnce ==
    [][\A s \in DOMAIN sessions :
        s \in DOMAIN sessions' /\ sessions'[s] = sessions[s]]_vars

\* C4: a source that has a session-cache entry has one in every later state.
C4_SessionsNeverRemoved ==
    [][\A s \in DOMAIN sessions : s \in DOMAIN sessions']_vars

\* C4 witness: both sources are established, the token map has been replaced
\* since and a further read from an established source is in flight.
C4_Witness ==
    /\ DOMAIN sessions = Sources
    /\ token_map = FetchTokens(TableB)
    /\ poll_pc = "sleep"
    /\ \E w \in Workers : rpc[w] = "done" /\ endpoint[w] = None

\* C5: a read for a source without a session whose payload is shorter than
\* handshake_bytes returns Ok with an empty destination list; it writes no
\* session and keeps nothing of the packet.
C5_ShortPayloadDropped ==
    [][\A w \in Workers :
        ( /\ rpc[w] = "handshake" /\ Steps(w)
          /\ Len(call[w].contents) < config.handshake_bytes )
        => /\ rpc'[w] = "done"
           /\ result'[w] = "Ok"
           /\ ctx'[w].destinations = <<>>
           /\ sessions' = sessions
           /\ token'[w] = "" /\ endpoint'[w] = None
    ]_vars

\* C5 witness: a two-byte payload met handshake_bytes = 4 on a source without
\* a session; the call returned with no destination and the source has no
\* session.
C5_Witness ==
    \E w \in Workers :
        /\ rpc[w] = "done"
        /\ config.handshake_bytes = 4
        /\ Len(call[w].contents) = 2
        /\ call[w].destinations # <<>>
        /\ ctx[w].destinations = <<>>
        /\ result[w] = "Ok"
        /\ Source(w) \notin DOMAIN sessions

\* C6: a read for a source without a session whose handshake token is not a
\* key of the token map returns Ok with an empty destination list and leaves
\* the session cache as it is.
C6_UnknownTokenDropped ==
    [][\A w \in Workers :
        ( /\ rpc[w] = "lookup" /\ Steps(w)
          /\ HandshakeToken(w) \notin DOMAIN token_map )
        => /\ rpc'[w] = "done"
           /\ result'[w] = "Ok"
           /\ ctx'[w].destinations = <<>>
           /\ sessions' = sessions
    ]_vars

\* C6 witness: the token map is not empty, the packet's token is none of its
\* keys, and the call returned with no destination and no session.
C6_Witness ==
    \E w \in Workers :
        /\ rpc[w] = "done"
        /\ Len(call[w].contents) >= config.handshake_bytes
        /\ token[w] = HandshakeToken(w)
        /\ token_map # EmptyMap
        /\ token[w] \notin DOMAIN token_map
        /\ ip_port[w] = None
        /\ call[w].destinations # <<>>
        /\ ctx[w].destinations = <<>>
        /\ result[w] = "Ok"
        /\ Source(w) \notin DOMAIN sessions

-----------------------------------------------------------------------------
(* Properties of the load balancer                                         *)

\* C7: round robin on one filter instance, invoked sequentially with
\* candidate sets of one fixed size N: the k-th invocation (k = 0, 1, ...)
\* selects the candidate at position k mod N.
C7_KthSelectsKModN ==
    \A w \in Workers :
        ( /\ policy = "RoundRobin"
          /\ lb_pc[w] = "done"
          /\ ~lb_overlap
          /\ lb_sizes = {Len(lb_given[w])} )
        => /\ lb_idx[w] = lb_ordinal[w] % Len(lb_given[w])
           /\ lb_endpoints[w] = <<lb_given[w][(lb_ordinal[w] % Len(lb_given[w])) + 1]>>

\* C8: for both policies and any interleaving, with candidate sets of any
\* sizes: the index handed to keep is below the packet's candidate count, keep
\* succeeds, and the candidate set then holds exactly the endpoint that was at
\* that index.
C8_IndexInRangeAndCollapsed ==
    \A w \in Workers :
        /\ lb_pc[w] # "panicked"
        /\ lb_pc[w] = "done"
           => /\ lb_idx[w] \in 0..(Len(lb_given[w]) - 1)
              /\ lb_endpoints[w] = <<lb_given[w][lb_idx[w] + 1]>>
        /\ lb_pc[w] \in {"choose", "keep"}
           => lb_endpoints[w] = lb_given[w] /\ Len(lb_given[w]) >= 1

\* C8 witness: two invocations with candidate sets of different sizes have
\* completed side by side, one of them under a counter value that is not
\* itself a valid index.
C8_Witness ==
    \E w, v \in Workers :
        /\ lb_pc[w] = "done" /\ lb_pc[v] = "done"
        /\ lb_overlap
        /\ Len(lb_given[w]) < Len(lb_given[v])
        /\ policy = "RoundRobin"
        /\ lb_count[w] >= Len(lb_given[w])
        /\ Len(lb_endpoints[w]) = 1 /\ Len(lb_endpoints[v]) = 1

\* C9: under the random policy every invocation collapses the candidate set
\* to the one endpoint at an index in [0, N), and at every invocation each
\* index in [0, N) is a possible outcome.
C9_RandomInRangeAndAllPossible ==
    policy = "Random" =>
        \A w \in Workers :
            /\ lb_pc[w] # "panicked"
            /\ lb_pc[w] = "done"
               => /\ lb_idx[w] \in 0..(Len(lb_given[w]) - 1)
                  /\ lb_endpoints[w] = <<lb_given[w][lb_idx[w] + 1]>>
            /\ lb_pc[w] = "choose"
               => \A i \in 0..(Len(lb_given[w]) - 1) :
                     ENABLED (RandomChoose(w) /\ lb_idx'[w] = i)

\* C9 witness: two invocations on the same filter, with the same candidate
\* set of the largest size, have drawn different indices, one of them the
\* last.
C9_Witness ==
    \E w, v \in Workers :
        /\ policy = "Random"
        /\ lb_pc[w] = "done" /\ lb_pc[v] = "done"
        /\ lb_given[w] = lb_given[v]
        /\ Len(lb_given[w]) = MaxEndpoints
        /\ lb_idx[w] = MaxEndpoints - 1
        /\ lb_idx[v] = 0

-----------------------------------------------------------------------------
(* Properties of SourceIpRouter::read                                      *)

\* the routes with a CIDR that contains the source read was called with
MatchingRoutes ==
    {i \in 1..Len(routes) :
        \E j \in 1..Len(routes[i].sources) :
            CidrContains(routes[i].sources[j], ip_call.source[1].ip)}

FirstMatching == CHOOSE i \in MatchingRoutes : \A j \in MatchingRoutes : i <= j

C12_OnlyMappedV6InV4Network ==
    LET src == ip_call.source[1].ip
        IsMapped(ip) ==
            /\ \A k \in 1..10 : ip.octets[k] = 0
            /\ ip.octets[11] = 255 /\ ip.octets[12] = 255
        Embedded(ip) == IpV4(ip.octets[13], ip.octets[14], ip.octets[15], ip.octets[16])
        Contains(cidr, ip) ==
            IF cidr.addr.v = 4 /\ ip.v = 6
            THEN IsMapped(ip) /\ NetworkContains(cidr, Embedded(ip))
            ELSE NetworkContains(cidr, ip)
    IN  ip_pc # "idle"
        => \A i \in ip_consulted :
              (ip_pc = "done" /\ ip_next = i)
              <=> \E j \in 1..Len(routes[i].sources) : Contains(routes[i].sources[j], src)

-----------------------------------------------------------------------------
(* Properties of the refresh task                                          *)

\* the refresh task takes a step
PollSteps == poll_pc' # poll_pc

\* C13: a failed scan changes nothing: from the start of a scan that fails
\* until the next scan starts no step changes the token map; the failure
\* itself (entering the Err arm, its warning) leaves the session cache, the
\* locks and every read in progress as they were; no read ever returns an
\* error.
C13_FailedScanChangesNothing ==
    [][ /\ poll_pc \in {"scan", "warn", "sleep"} => token_map' = token_map
        /\ (PollSteps /\ (poll_pc' = "warn" \/ poll_pc = "warn"))
           => /\ sessions' = sessions
              /\ locks' = locks
              /\ <<rpc, ctx, token, ip_port, endpoint, result>>'
                   = <<rpc, ctx, token, ip_port, endpoint, result>>
        /\ \A w \in Workers : result'[w] \in {"none", "Ok"} ]_vars

\* C13 witness: a scan has failed while the map holds an earlier scan's
\* tokens, which the table no longer has; one read is in its lookup under the
\* token-map lock, another has resolved its token and waits to insert.
C13_Witness ==
    /\ poll_pc = "warn"
    /\ token_map = FetchTokens(TableA)
    /\ table = TableB
    /\ \E w, v \in Workers :
          /\ rpc[w] = "lookup" /\ locks.token_map = w
          /\ rpc[v] = "insert_lock" /\ endpoint[v] # None

\* the maps a scan can return, and the map a new router starts with
ScanResults == {FetchTokens(t) : t \in Tables} \cup {EmptyMap}

\* C14: a successful scan replaces the token map in one step, under the
\* token-map lock, by exactly the scan's result: the map is always a whole
\* scan result (or the initial empty map), never a merge of two; a lookup
\* holds the lock, so the map cannot change under it, and what it resolves
\* is what one whole scan result resolves.
C14_WholesaleAtomicReplace ==
    [][ /\ (PollSteps /\ poll_pc = "store")
           => /\ token_map' = latest
              /\ locks.token_map = "poll"
        /\ token_map' # token_map => (PollSteps /\ poll_pc = "store")
        /\ token_map' \in ScanResults
        /\ \A w \in Workers :
              rpc[w] = "lookup"
              => /\ locks.token_map = w
                 /\ token_map' = token_map
                 /\ Steps(w)
                    => \E m \in ScanResults :
                          /\ m = token_map
                          /\ endpoint'[w] = LookupEndpoint(m, token[w]) ]_vars

\* C14 witness: the map holds the scan of the second table, which lacks a
\* token of the first table's scan; that first scan was in the map before (a
\* session points at an endpoint only it gives), and a read that computed
\* the dropped token is in its lookup.
C14_Witness ==
    /\ poll_pc = "sleep"
    /\ token_map = FetchTokens(TableB)
    /\ "cm8=" \in DOMAIN FetchTokens(TableA) \ DOMAIN token_map
    /\ \E s \in DOMAIN sessions : sessions[s].address = SocketAddrV4(10, 0, 101, 69, 7777)
    /\ \E w \in Workers : rpc[w] = "lookup" /\ token[w] = "cm8="

-----------------------------------------------------------------------------
(* Properties of the session router's config forms and factory             *)

\* C15: a SessionRouterConfig converted to its proto form and back equals
\* the config that was given, for every usize handshake_bytes and every
\* table name; a proto converted to a config and back equals the proto that
\* was given.
C15_ConversionsRoundTrip ==
    cv_pc \in {"config_round_trip", "proto_round_trip"} => cv_out = cv_given

\* C16: create_filter called with a dynamic config, with a config that does
\* not deserialize (no config at all counts: it is read as null), or on a
\* factory without a client returns a creation error, builds no SessionRouter
\* and spawns no refresh task; routers and tasks come into being only by a
\* create_filter that returns Ok, one of each.
C16_CreationFailsFast ==
    [][ /\ (cf_pc = "idle" /\ cf_pc' = "done")
           => LET a       == cf_args'
                  dynamic == a # None /\ a[1].kind = "Dynamic"
                  doc     == IF a = None THEN JsonNull ELSE a[1].value
                  fails   == \/ dynamic
                             \/ FromValue(doc) = None
                             \/ dynamo_client = None
              IN  /\ fails => /\ cf_result' \in {"Err(NotFound)", "Err(DeserializeFailed)"}
                              /\ routers' = routers
                              /\ poll_handles' = poll_handles
                  /\ dynamic => cf_result' = "Err(NotFound)"
                  /\ (~dynamic /\ FromValue(doc) = None)
                     => cf_result' = "Err(DeserializeFailed)"
        /\ <<routers, poll_handles>>' # <<routers, poll_handles>>
           => /\ cf_result' = "Ok(FilterInstance)"
              /\ routers' = routers + 1
              /\ poll_handles' = poll_handles + 1 ]_vars

\* C16 witness: a factory with a client has built one router, and a further
\* create_filter, given a document with an unknown field, has returned a
\* deserialization error with still one router and one task.
C16_Witness ==
    /\ dynamo_client # None
    /\ cf_pc = "done"
    /\ cf_args = Some(Static(JsonObject([handshake_bytes |-> JsonNumber(4),
                                         table |-> JsonString("Tokens")])))
    /\ cf_result = "Err(DeserializeFailed)"
    /\ routers = 1
    /\ poll_handles = 1

\* a scan is attempted: the awaited fetch returns, with either outcome
ScanAttempt == RefreshScanOk \/ RefreshScanErr

\* C17: the refresh task never ends. Its steps follow the loop: a scan, then
\* either the store or the warning, then one sleep, then the next scan; and
\* under fair scheduling every sleep is reached and ends, so scans are
\* attempted again and again, whatever their outcomes.
C17_RefreshNeverStops ==
    /\ [][ PollSteps
           => \/ poll_pc = "scan" /\ poll_pc' \in {"store_lock", "warn"}
              \/ poll_pc = "store_lock" /\ poll_pc' = "store"
              \/ poll_pc \in {"store", "warn"} /\ poll_pc' = "sleep"
              \/ poll_pc = "sleep" /\ poll_pc' = "scan" ]_vars
    /\ (poll_pc = "warn") ~> (poll_pc = "sleep")
    /\ (poll_pc = "store_lock") ~> (poll_pc = "sleep")
    /\ (poll_pc = "sleep") ~> (poll_pc = "scan")
    /\ []<><<ScanAttempt>>_vars

\* C17 witness: the task has been round the loop (the map holds a scan's
\* result, which the table has since moved away from) and its latest scan
\* has failed; it is about to sleep.
C17_Witness ==
    /\ poll_pc = "warn"
    /\ token_map = FetchTokens(TableB)
    /\ table = TableA
    /\ locks.token_map = "none"

\* C18: if from some point on the table no longer changes and scans succeed
\* again and again, then from some point on the token map is the table's
\* token -> "ipAddress:port" projection, for good.
C18_EventuallyConsistent ==
    (<>[][table' = table]_vars /\ []<><<RefreshScanOk>>_vars)
    => <>[](token_map = FetchTokens(table))

\* C18 witness: the map holds the projection of the table as it is now, which
\* is not the projection it held first: a session points at an endpoint only
\* the other table gives.
C18_Witness ==
    /\ token_map = FetchTokens(table)
    /\ table = TableB
    /\ poll_pc = "sleep"
    /\ \E s \in DOMAIN sessions : sessions[s].address = SocketAddrV4(10, 0, 101, 69, 7777)

\* C19: the refresh task holds the token-map lock only for its store and the
\* session-cache lock never; so while a scan is in flight, and while the task
\* sleeps, both locks are free or in the hands of a read, and every read can
\* take its next step unless another read holds the lock it needs: a new
\* read can start, a read at its handshake or its insert can take the lock.
C19_NoLockAcrossScanOrSleep ==
    /\ locks.sessions # "poll"
    /\ locks.token_map = "poll" <=> poll_pc = "store"
    /\ poll_pc \in {"scan", "warn", "sleep"}
       => \A w \in Workers :
             LET others == Workers \ {w}
             IN  /\ rpc[w] = "idle"
                    => \/ locks.sessions \in others
                       \/ \A src \in Sources, payload \in Payloads,
                             dests \in InitialDestinations :
                                ENABLED ReadStart(w, src, payload, dests)
                 /\ rpc[w] = "check" => ENABLED ReadCheckSession(w)
                 /\ rpc[w] = "handshake"
                    => (locks.token_map \in others \/ ENABLED ReadHandshake(w))
                 /\ rpc[w] = "lookup" => ENABLED ReadLookup(w)
                 /\ rpc[w] = "insert_lock"
                    => (locks.sessions \in others \/ ENABLED ReadLockSessions(w))
                 /\ rpc[w] = "insert" => ENABLED ReadInsert(w)
                 /\ rpc[w] = "done" => ENABLED ReadReturn(w)

\* C19 witness: a scan is in flight after an earlier one was stored; one read
\* is in its lookup with the token-map lock, the other holds the
\* session-cache lock for its insert.
C19_Witness ==
    /\ poll_pc = "scan"
    /\ token_map # EmptyMap
    /\ \E w, v \in Workers :
          /\ rpc[w] = "lookup" /\ locks.token_map = w
          /\ rpc[v] = "insert" /\ locks.sessions = v

-----------------------------------------------------------------------------
(* Properties of the round-robin chooser under concurrency                 *)

\* invocations that have read the counter and not yet returned
InFlight == {w \in Workers : lb_pc[w] \in {"keep", "done"}}

\* C20: with candidate sets of one size N throughout, the invocations of a
\* round-robin filter read distinct counter values, the n-th fetch reading
\* n (none repeated, none skipped); and whenever k*N invocations have
\* completed and none is under way, each of the N positions has been
\* selected exactly k times.
C20_DistinctCountsBalancedSelection ==
    (policy = "RoundRobin" /\ Cardinality(lb_sizes) = 1)
    => LET N == CHOOSE n \in lb_sizes : TRUE
       IN  /\ \A w \in InFlight : lb_count[w] = lb_ordinal[w]
           /\ \A w, v \in InFlight : w # v => lb_count[w] # lb_count[v]
           /\ ( /\ \A w \in Workers : lb_pc[w] \in {"idle", "done"}
                /\ received % N = 0 )
              => \A i \in 0..(N - 1) : lb_selected[i] = received \div N

\* C21: with candidate sets of one size N throughout, the round-robin
\* invocation served right after the one that read the largest counter value
\* 2^w - 1 selects the cyclic successor of that one's position, as every
\* invocation does with respect to the one served before it.
C21_CyclicAcrossOverflow ==
    (policy = "RoundRobin" /\ Cardinality(lb_sizes) = 1)
    => \A w, v \in Workers :
          ( /\ lb_pc[w] = "done" /\ lb_pc[v] = "done"
            /\ lb_ordinal[v] = lb_ordinal[w] + 1 )
          => lb_idx[v] = (lb_idx[w] + 1) % Len(lb_given[w])

-----------------------------------------------------------------------------
(* Errors of SourceIpRouter::read                                          *)

-----------------------------------------------------------------------------
(* Provenance, lock discipline and start of the session router             *)

\* C23: a session entry source -> E comes only from the insert of a read of
\* a packet from that source, with E the endpoint that read's lookup
\* resolved: the lookup resolves the token of the packet's own first
\* handshake_bytes bytes against the token map as it is at that moment, and
\* the read keeps its source and its endpoint from the lookup to the insert.
\* A read that returns destinations returns exactly one: the endpoint it has
\* just inserted, or the one the cache holds for its own source.
C23_SessionProvenance ==
    [][ /\ \A w \in Workers :
              /\ (rpc[w] = "lookup" /\ Steps(w))
                 => /\ endpoint'[w] = LookupEndpoint(token_map, HandshakeToken(w))
                    /\ rpc'[w] = "insert_lock" <=> endpoint'[w] # None
              /\ (rpc[w] \in {"insert_lock", "insert"})
                 => /\ endpoint'[w] = endpoint[w] /\ endpoint[w] # None
                    /\ call'[w] = call[w]
                    /\ ctx'[w].source = call[w].source
              /\ (Steps(w) /\ rpc'[w] = "done")
                 => \/ ctx'[w].destinations = <<>>
                    \/ /\ rpc[w] = "insert"
                       /\ ctx'[w].destinations = <<endpoint[w][1].address>>
                       /\ sessions'[Source(w)] = endpoint[w][1]
                    \/ /\ rpc[w] = "check"
                       /\ Source(w) \in DOMAIN sessions
                       /\ ctx'[w].destinations = <<sessions[Source(w)].address>>
        /\ sessions' # sessions
           => \E w \in Workers :
                 /\ rpc[w] = "insert" /\ Steps(w)
                 /\ DOMAIN sessions' = DOMAIN sessions \cup {Source(w)}
                 /\ sessions'[Source(w)] = endpoint[w][1]
                 /\ \A s \in DOMAIN sessions \ {Source(w)} : sessions'[s] = sessions[s]
      ]_vars

\* C23 witness: the two sources have sessions with different endpoints; one
\* read has returned its source's cached endpoint, another, for the other
\* source, the endpoint it has just resolved and inserted.
C23_Witness ==
    \E w, v \in Workers :
        /\ rpc[w] = "done" /\ rpc[v] = "done"
        /\ Source(w) # Source(v)
        /\ DOMAIN sessions = Sources
        /\ sessions[Source(w)] # sessions[Source(v)]
        /\ endpoint[w] = None
        /\ ctx[w].destinations = <<sessions[Source(w)].address>>
        /\ endpoint[v] # None
        /\ ctx[v].destinations = <<endpoint[v][1].address>>
        /\ sessions[Source(v)] = endpoint[v][1]

\* the packet workers and the refresh task
Holders == Workers \cup {"poll"}

\* C24: nobody ever holds the session-cache lock and the token-map lock
\* together, and a lock is held only inside the critical section it belongs
\* to; under fair scheduling every read that has started returns and every
\* scan result waiting for the token-map lock is stored.
C24_NeverBothLocksNoDeadlock ==
    /\ [](\A h \in Holders : ~(locks.sessions = h /\ locks.token_map = h))
    /\ [](\A w \in Workers :
             /\ locks.sessions = w <=> rpc[w] \in {"check", "insert"}
             /\ locks.token_map = w <=> rpc[w] = "lookup")
    /\ \A w \in Workers : (rpc[w] # "idle") ~> (rpc[w] = "done")
    /\ (poll_pc = "store_lock") ~> (poll_pc = "store")
    /\ (poll_pc = "store") ~> (poll_pc = "sleep" /\ locks.token_map # "poll")

\* C24 witness: both locks are held, by different holders: the refresh task
\* is storing a scan result while one read holds the session-cache lock for
\* its insert and the other read waits for the token-map lock.
C24_Witness ==
    /\ poll_pc = "store" /\ locks.token_map = "poll"
    /\ \E w, v \in Workers :
          /\ rpc[w] = "insert" /\ locks.sessions = w
          /\ rpc[v] = "handshake"

\* C25: a read for a source without a session whose token is a key of the
\* token map, mapped to a string that does not parse as an endpoint address,
\* ends like a read with an unknown token: the lookup step finds the string
\* but no endpoint, clears the destination list, returns Ok and is the
\* read's last step; the session cache is not written and no error is
\* raised.
C25_UnparseableIsUnknown ==
    [][\A w \in Workers :
        ( /\ rpc[w] = "lookup" /\ Steps(w)
          /\ HandshakeToken(w) \in DOMAIN token_map
          /\ ParseEndpointAddress(token_map[HandshakeToken(w)]) = None )
        => /\ ip_port'[w] = Some(token_map[HandshakeToken(w)])
           /\ endpoint'[w] = None
           /\ rpc'[w] = "done"
           /\ result'[w] = "Ok"
           /\ ctx'[w].destinations = <<>>
           /\ sessions' = sessions ]_vars

\* C25 witness: a read that was passed destinations has returned after its
\* lookup found a string that does not parse; its source has no session.
C25_Witness ==
    \E w \in Workers :
        /\ rpc[w] = "done"
        /\ ip_port[w] # None
        /\ ParseEndpointAddress(ip_port[w][1]) = None
        /\ endpoint[w] = None
        /\ result[w] = "Ok"
        /\ call[w].destinations # <<>>
        /\ ctx[w].destinations = <<>>
        /\ Source(w) \notin DOMAIN sessions

\* C26: a new SessionRouter has an empty token map and an empty session
\* cache and its refresh task is at its first scan, not at a sleep.  The
\* token map stops being empty only by the store of a successful scan, and
\* as long as it is empty no session exists and every read that has
\* returned, for any source and payload, returned Ok with no destinations.
C26_EmptyUntilFirstScan ==
    /\ token_map = EmptyMap /\ DOMAIN sessions = {} /\ poll_pc = "scan"
    /\ [][(token_map = EmptyMap /\ token_map' # EmptyMap)
            => (poll_pc = "store" /\ latest \in ScanResults
                /\ token_map' = latest)]_vars
    /\ [](token_map = EmptyMap
            => /\ DOMAIN sessions = {}
               /\ \A w \in Workers :
                     /\ endpoint[w] = None
                     /\ rpc[w] \notin {"insert_lock", "insert"}
                     /\ rpc[w] = "done"
                        => (result[w] = "Ok" /\ ctx[w].destinations = <<>>))

\* C26 witness: the first scan has failed and the task sleeps with the map
\* still empty; a read with a full handshake and destinations passed in has
\* returned with none.
C26_Witness ==
    /\ token_map = EmptyMap
    /\ poll_pc = "sleep"
    /\ \E w \in Workers :
          /\ rpc[w] = "done"
          /\ Len(call[w].contents) >= config.handshake_bytes
          /\ call[w].destinations # <<>>
          /\ ctx[w].destinations = <<>>
          /\ result[w] = "Ok"
====
